---------------------------- MODULE Spec2Model ----------------------------
(***************************************************************************)
(* Model of tools/generate_traceability.py (the requirements-traceability  *)
(* report generator) and of the stand-alone parsers tools/parse_trx.py and *)
(* tools/parse_junit.py.                                                   *)
(*                                                                         *)
(* Encodings.                                                              *)
(*  - A test or result NAME is a sequence of one-character strings, so     *)
(*    that str.endswith, str.strip, re.split and re.search are computed on *)
(*    characters.  The only white-space character of the alphabet is " ".  *)
(*  - A requirement identifier "REQ-nnn" is the number nnn (REQ_RE captures*)
(*    the three digits and the code re-formats them as REQ-{int:0>3}).     *)
(*  - A Python dict is a sequence of <<key, value>> pairs with distinct    *)
(*    keys in first-insertion order (CPython's iteration order).           *)
(*  - A test-to-requirement mapping is a function from the mapped names to *)
(*    the non-empty set of their requirements; a coverage list is the set  *)
(*    of its (Lang, TestName, Outcome) tuples (the tuples of one           *)
(*    requirement are pairwise distinct, only their order is dropped).     *)
(***************************************************************************)
EXTENDS Integers, Sequences, FiniteSets, TLC

VARIABLES
    pc,          \* position of the run
    trxFiles,    \* the **/*.trx files found, in discovery order
    junitFiles,  \* the JUnit XML files found, in discovery order
    csFiles,     \* the C# test sources, each a sequence of tokens
    pyFiles,     \* the Python test sources, each a sequence of lines
    docs,        \* the .md/.yml/.yaml/.txt files (catalog, documents): the REQ
                 \* numbers in them, and whether all of them can be read
    trx_rows,    \* build_coverage: trx_rows
    junit_rows,  \* build_coverage: junit_rows
    cs_map,      \* build_coverage: cs_map
    py_map,      \* build_coverage: py_map
    coverage,    \* REQ -> set of (Lang, TestName, Outcome)
    overall,     \* REQ -> aggregate outcome
    matrix,      \* artifacts/traceability_matrix.md: NotWritten, or its rows
    report,      \* artifacts/validation_report.md: NotWritten, or its summary
    toolRun      \* last run of a stand-alone parser script

vars == <<pc, trxFiles, junitFiles, csFiles, pyFiles, docs, trx_rows,
          junit_rows, cs_map, py_map, coverage, overall, matrix, report,
          toolRun>>

\* ------------------------------------------------------------------------
\* Bounds of the model
\* ------------------------------------------------------------------------

\* Largest number of result files of one format given to the parsers.
MaxFiles == 2
\* Largest number of result nodes in one result file.
MaxNodes == 1
\* Largest number of result rows of one format given to the joiner.
MaxJoinRows == 2
\* Largest number of lines of the Python source under scan, and of the
\* Python source scanned after it.
MaxLines == 4
MaxLinesNext == 1
\* Largest number of classes in a C# source, and of methods in a class.
MaxClasses == 2
MaxMethods == 2

\* Sequences over S of length at most n.
SeqsUpTo(S, n) == UNION {[1..k -> S] : k \in 0..n}

\* ------------------------------------------------------------------------
\* Strings
\* ------------------------------------------------------------------------

Outcomes == {"Passed", "Failed", "Skipped", "Unknown"}

IsSpace(c) == c = " "

\* str.strip() of a name.
RECURSIVE LStrip(_)
LStrip(s) == IF s # <<>> /\ IsSpace(Head(s)) THEN LStrip(Tail(s)) ELSE s

RECURSIVE RStrip(_)
RStrip(s) ==
    IF s # <<>> /\ IsSpace(s[Len(s)]) THEN RStrip(SubSeq(s, 1, Len(s) - 1))
    ELSE s

Strip(s) == RStrip(LStrip(s))

\* str.strip() of an outcome attribute value.  Outcome strings are TLA+
\* strings; the padded values the model feeds in are stripped by table.
StripStr(s) ==
    CASE s = " Passed " -> "Passed"
      [] s = "  " -> ""
      [] OTHER -> s

\* dict.get(k, d) of an attribute dictionary.
Get(attrib, k, d) == IF k \in DOMAIN attrib THEN attrib[k] ELSE d

\* Python's "a or b" on strings: the first operand unless it is empty.
OrElse(a, b, empty) == IF a # empty THEN a ELSE b

UnknownName == <<"U", "n", "k", "n", "o", "w", "n">>

\* ------------------------------------------------------------------------
\* Result parsers of generate_traceability.py
\* ------------------------------------------------------------------------

\* One row of parse_trx_file, from one UnitTestResult node.
TrxRow(res) ==
    LET name0 == OrElse(Get(res.attrib, "testName", <<>>),
                        OrElse(Get(res.attrib, "testname", <<>>), <<>>, <<>>),
                        <<>>)
        outcome0 == OrElse(Get(res.attrib, "outcome", ""),
                           Get(res.attrib, "result", ""), "")
        name == IF name0 = <<>>
                THEN OrElse(Get(res.attrib, "executionId", <<>>),
                            OrElse(Get(res.attrib, "testId", <<>>),
                                   UnknownName, <<>>),
                            <<>>)
                ELSE name0
        outcome == IF outcome0 = ""
                   THEN (IF res.errorInfo THEN "Failed" ELSE "Unknown")
                   ELSE outcome0
    IN [name |-> Strip(name), outcome |-> StripStr(outcome)]

\* parse_trx_file: the rows of one TRX file, [] when ET.parse raises.
ParseTrxFile(file) ==
    IF ~file.wellFormed THEN <<>>
    ELSE [i \in 1..Len(file.results) |-> TrxRow(file.results[i])]

RECURSIVE ConcatAll(_)
ConcatAll(ss) == IF ss = <<>> THEN <<>> ELSE Head(ss) \o ConcatAll(Tail(ss))

\* load_all_trx_rows: the rows of every file, in order.
LoadAllTrxRows(files) ==
    ConcatAll([i \in 1..Len(files) |-> ParseTrxFile(files[i])])

\* re.split(r"[\[\(]", name, 1)[0]: the part before the first "[" or "(".
RECURSIVE SplitBracket(_)
SplitBracket(s) ==
    IF s = <<>> \/ Head(s) \in {"[", "("} THEN <<>>
    ELSE <<Head(s)>> \o SplitBracket(Tail(s))

\* One row of parse_junit_file, from one testcase node.
JunitRow(tc) ==
    LET name == OrElse(Get(tc.attrib, "name", <<>>), <<>>, <<>>)
        norm == SplitBracket(name)
        outcome == IF tc.skipped THEN "Skipped"
                   ELSE IF tc.failure \/ tc.error THEN "Failed"
                   ELSE "Passed"
    IN [name |-> Strip(norm), outcome |-> outcome]

\* parse_junit_file: the rows of one JUnit file, [] when ET.parse raises.
ParseJunitFile(file) ==
    IF ~file.wellFormed THEN <<>>
    ELSE [i \in 1..Len(file.cases) |-> JunitRow(file.cases[i])]

\* load_all_junit_rows: the rows of every file, in order.
LoadAllJunitRows(files) ==
    ConcatAll([i \in 1..Len(files) |-> ParseJunitFile(files[i])])

\* ------------------------------------------------------------------------
\* Stand-alone parser scripts
\* ------------------------------------------------------------------------

NoneValue == "None"

\* tools/parse_trx.py parse_trx: ET.parse is not guarded, and the result
\* nodes are looked up in the TeamTest 2010 namespace only.  The categories
\* of a row are left out.
ParseTrxTool(file) ==
    IF ~file.wellFormed THEN [raised |-> TRUE, rows |-> <<>>]
    ELSE [raised |-> FALSE,
          rows |->
            IF ~file.teamTestNs THEN <<>>
            ELSE [i \in 1..Len(file.results) |->
                    [name |-> Get(file.results[i].attrib, "testName", NoneValue),
                     outcome |-> Get(file.results[i].attrib, "outcome", NoneValue)]]]

\* tools/parse_junit.py: JUnitXml.fromfile is not guarded; the outcome is
\* the tag of the case's result node.
ParseJunitTool(file) ==
    IF ~file.wellFormed THEN [raised |-> TRUE, rows |-> <<>>]
    ELSE [raised |-> FALSE,
          rows |->
            [i \in 1..Len(file.cases) |->
                [name |-> Get(file.cases[i].attrib, "name", NoneValue),
                 outcome |->
                    IF file.cases[i].skipped THEN "skipped"
                    ELSE IF file.cases[i].failure THEN "failure"
                    ELSE IF file.cases[i].error THEN "error"
                    ELSE "Passed"]]]

\* ------------------------------------------------------------------------
\* Name resolver / joiner
\* ------------------------------------------------------------------------

DictHas(d, k) == \E i \in 1..Len(d) : d[i][1] = k

DictGet(d, k, default) ==
    IF DictHas(d, k)
    THEN (CHOOSE p \in {d[i] : i \in 1..Len(d)} : p[1] = k)[2]
    ELSE default

\* A dictionary whose first value of a key is kept.
DictSet_keepFirst(d, k, v) ==
    IF DictHas(d, k) THEN d ELSE Append(d, <<k, v>>)

\* d[k] = v: an existing key keeps its place, a new key goes last.
DictSet(d, k, v) ==
    IF DictHas(d, k)
    THEN [i \in 1..Len(d) |-> IF d[i][1] = k THEN <<k, v>> ELSE d[i]]
    ELSE Append(d, <<k, v>>)

\* {r["name"]: r["outcome"] for r in rows}
RECURSIVE DictFromRowsFrom(_, _)
DictFromRowsFrom(d, rows) ==
    IF rows = <<>> THEN d
    ELSE DictFromRowsFrom(DictSet(d, Head(rows).name, Head(rows).outcome),
                          Tail(rows))

DictFromRows(rows) == DictFromRowsFrom(<<>>, rows)

\* k.endswith(suffix)
EndsWith(k, suffix) ==
    /\ Len(suffix) <= Len(k)
    /\ SubSeq(k, Len(k) - Len(suffix) + 1, Len(k)) = suffix

\* k[j..] matches \s*\(
RECURSIVE SpacesThenParen(_, _)
SpacesThenParen(k, j) ==
    IF j > Len(k) THEN FALSE
    ELSE IF k[j] = "(" THEN TRUE
    ELSE IF IsSpace(k[j]) THEN SpacesThenParen(k, j + 1)
    ELSE FALSE

\* re.search(rf"(^|[.:]){re.escape(method_name)}\s*\(", k)
ParenSearch(method_name, k) ==
    \E i \in 1..Len(k) :
        /\ i = 1 \/ k[i - 1] \in {".", ":"}
        /\ i + Len(method_name) - 1 <= Len(k)
        /\ SubSeq(k, i, i + Len(method_name) - 1) = method_name
        /\ SpacesThenParen(k, i + Len(method_name))

\* The first if of the loop body of outcome_for_csharp_method.
SuffixTest(method_name, k) ==
    \/ EndsWith(k, <<".">> \o method_name)
    \/ EndsWith(k, <<":", ":">> \o method_name)
    \/ k = method_name

\* The second if of the loop body.
ParenTest(method_name, k) ==
    \/ EndsWith(k, <<".">> \o method_name)
    \/ ParenSearch(method_name, k)

\* The for loop of outcome_for_csharp_method, from item i on: the value of
\* the first item that passes either test.
RECURSIVE CsharpLoop(_, _, _)
CsharpLoop(method_name, csharp_out, i) ==
    IF i > Len(csharp_out) THEN "Unknown"
    ELSE IF SuffixTest(method_name, csharp_out[i][1]) THEN csharp_out[i][2]
    ELSE IF ParenTest(method_name, csharp_out[i][1]) THEN csharp_out[i][2]
    ELSE CsharpLoop(method_name, csharp_out, i + 1)

OutcomeForCsharpMethod(method_name, csharp_out) ==
    IF DictHas(csharp_out, method_name)
    THEN DictGet(csharp_out, method_name, "Unknown")
    ELSE CsharpLoop(method_name, csharp_out, 1)

\* py_out.get(test_name, "Unknown")
OutcomeForPyTest(test_name, py_out) == DictGet(py_out, test_name, "Unknown")

\* ------------------------------------------------------------------------
\* build_coverage: universe, join, aggregation
\* ------------------------------------------------------------------------

\* The requirements of a mapping: reqs.update(v) for every value.
ReqsOf(map) == UNION {map[t] : t \in DOMAIN map}

\* "Join C#" and "Join Py": the tuples appended to coverage[rid].
CoverageOf(rid, csMap, csharp_out, pyMap, py_out) ==
    {<<"C#", t, OutcomeForCsharpMethod(t, csharp_out)>> :
        t \in {u \in DOMAIN csMap : rid \in csMap[u]}}
    \cup
    {<<"Py", t, OutcomeForPyTest(t, py_out)>> :
        t \in {u \in DOMAIN pyMap : rid \in pyMap[u]}}

BuildCoverageMap(csMap, csharp_out, pyMap, py_out) ==
    [rid \in ReqsOf(csMap) \cup ReqsOf(pyMap) |->
        CoverageOf(rid, csMap, csharp_out, pyMap, py_out)]

\* outcome_rank: lower is better, an unlisted string ranks as Unknown.
OutcomeRank(outcome) ==
    CASE outcome \in {"Passed", "Success", "OK"} -> 0
      [] outcome = "Skipped" -> 1
      [] outcome = "Unknown" -> 2
      [] outcome \in {"Failed", "Error"} -> 3
      [] OTHER -> 2

\* inv.get(best, "Unknown")
InvRank(rank) ==
    CASE rank = 0 -> "Passed"
      [] rank = 1 -> "Skipped"
      [] rank = 2 -> "Unknown"
      [] rank = 3 -> "Failed"
      [] OTHER -> "Unknown"

\* min(ranked)
MinOf(S) == CHOOSE x \in S : \A y \in S : x <= y

\* The aggregate outcome of one requirement's coverage tuples.
OverallOf(entries) ==
    IF entries = {} THEN "Unknown"
    ELSE InvRank(MinOf({OutcomeRank(e[3]) : e \in entries}))

BuildOverall(cov, reqs) ==
    [rid \in reqs |->
        IF rid \notin DOMAIN cov THEN "Unknown" ELSE OverallOf(cov[rid])]

\* ------------------------------------------------------------------------
\* Report emitters
\* ------------------------------------------------------------------------

NotWritten == [written |-> FALSE]

\* write_traceability_matrix: a row per tuple, a placeholder row for a
\* requirement without tuples, and a single row of placeholders when
\* coverage is empty ("if not coverage").
MatrixRows(cov) ==
    IF DOMAIN cov = {} THEN {<<"-", "-", "-", "-">>}
    ELSE UNION {IF cov[rid] = {} THEN {<<rid, "-", "-", "-">>}
                ELSE {<<rid, e[1], e[2], e[3]>> : e \in cov[rid]} :
                rid \in DOMAIN cov}

\* A test of the key alone: an empty list of tuples counts as covered.
IsCovered_keyPresent(cov, r) == r \in DOMAIN cov

\* coverage.get(r) is truthy
IsCovered(cov, r) == r \in DOMAIN cov /\ cov[r] # {}

\* f"{(num / den * 100.0):.0f}" for 0 <= num <= den <= 1000.  The exact
\* quotient is rounded half to even, except where the double product leaves
\* the tie: 0.575 * 100.0 is 57.49999999999999 and 0.545 * 100.0 is
\* 54.50000000000001.
Pct0(num, den) ==
    IF den = 0 THEN 0
    ELSE LET q == (num * 100) \div den
             r == (num * 100) % den
         IN IF 2 * r > den THEN q + 1
            ELSE IF 2 * r < den THEN q
            ELSE IF num * 40 = 23 * den THEN q
            ELSE IF num * 200 = 109 * den THEN q + 1
            ELSE IF q % 2 = 1 THEN q + 1
            ELSE q

\* write_validation_report: the header counts and the two lists.
ValidationReport(cov, ov) ==
    LET all_reqs == DOMAIN ov
        total == Cardinality(all_reqs)
        covered == Cardinality({r \in all_reqs : IsCovered(cov, r)})
        passed == Cardinality({r \in all_reqs : ov[r] = "Passed"})
    IN [total |-> total,
        covered |-> covered,
        cov_pct |-> Pct0(covered, total),
        passed |-> passed,
        pass_pct |-> Pct0(passed, total),
        failed |-> Cardinality({r \in all_reqs : ov[r] = "Failed"}),
        skipped |-> Cardinality({r \in all_reqs : ov[r] = "Skipped"}),
        unknown |-> Cardinality({r \in all_reqs : ov[r] = "Unknown"}),
        failing |-> {r \in all_reqs : ov[r] = "Failed"},
        uncovered |-> {r \in all_reqs : ~IsCovered(cov, r)}]

\* ------------------------------------------------------------------------
\* Source scanner: Python (map_py_test_reqs)
\*
\* A Python source is a sequence of lines; a line is one of
\*   [k |-> "deco", reqs |-> R]  @pytest.mark.req("REQ-00n"), n in R; R is
\*                               empty for a decorator such as
\*                               @pytest.mark.slow
\*   [k |-> "def", name |-> s]   def <s>():          (s starts with test_)
\*   [k |-> "doc", reqs |-> R]   """... REQ-00n ..."""
\*   [k |-> "text", reqs |-> R]  # ... REQ-00n ...
\*   [k |-> "code"]              a line without decorator, def or REQ token
\*   [k |-> "pad"]               a comment line of PrefixWindow characters
\* ------------------------------------------------------------------------

NoFn == <<>>

\* The slice text[max(0, start - 500) : start] of the decorator heuristic.
PrefixWindow == 500

\* Characters of a line, its line break included.
LineLen(line) ==
    CASE line.k = "deco" -> IF line.reqs = {} THEN 18 ELSE 28
      [] line.k = "def" -> Len(line.name) + 8
      [] line.k = "doc" -> 18
      [] line.k = "text" -> 14
      [] line.k = "code" -> 9
      [] line.k = "pad" -> PrefixWindow

\* REQ_RE.findall(line), as numbers.
LineReqs(line) ==
    IF line.k \in {"deco", "doc", "text"} THEN line.reqs ELSE {}

\* req_in_deco_rgx.findall on one line.
MarkerReqs(line) ==
    IF line.k = "deco" THEN line.reqs ELSE {}

RECURSIVE CharsBetween(_, _, _)
\* Characters of lines j .. s-1.
CharsBetween(text, j, s) ==
    IF j >= s THEN 0 ELSE LineLen(text[j]) + CharsBetween(text, j + 1, s)

\* m.start() of the deco_block_rgx match that ends in the def at line i:
\* the first line of the run of decorator lines right above the def
\* (i itself when no decorator line is right above it: no match).
RECURSIVE DecoBlockStart(_, _)
DecoBlockStart(text, i) ==
    IF i > 1 /\ text[i - 1].k = "deco" THEN DecoBlockStart(text, i - 1)
    ELSE i

\* req_in_deco_rgx.findall(prefix): the markers that lie in the PrefixWindow
\* characters before the start of the block.
PrefixMarkerReqs(text, start) ==
    UNION {MarkerReqs(text[j]) :
            j \in {h \in 1..(start - 1) :
                     CharsBetween(text, h, start) <= PrefixWindow}}

\* "Decorator blocks": the (name, requirement) pairs of one file.
DecoPairs(text) ==
    UNION {{<<text[i].name, r>> :
                r \in PrefixMarkerReqs(text, DecoBlockStart(text, i))} :
           i \in {h \in 1..Len(text) :
                    text[h].k = "def" /\ DecoBlockStart(text, h) < h}}

IsDigit(c) == c \in {"0", "1", "2", "3", "4", "5", "6", "7", "8", "9"}

\* \w on the alphabet of the model.
IsWordChar(c) == c \notin {" ", "-", ".", ":", "(", "[", ")", "]"}

DigitVal(c) ==
    CASE c = "0" -> 0 [] c = "1" -> 1 [] c = "2" -> 2 [] c = "3" -> 3
      [] c = "4" -> 4 [] c = "5" -> 5 [] c = "6" -> 6 [] c = "7" -> 7
      [] c = "8" -> 8 [] c = "9" -> 9

\* REQ_RE.findall(name) on the characters of a name: \bREQ-(\d{3})\b,
\* ignoring case.
NameReqs(name) ==
    {100 * DigitVal(name[i + 4]) + 10 * DigitVal(name[i + 5])
        + DigitVal(name[i + 6]) :
     i \in {h \in 1..(Len(name) - 6) :
              /\ name[h] \in {"R", "r"}
              /\ name[h + 1] \in {"E", "e"}
              /\ name[h + 2] \in {"Q", "q"}
              /\ name[h + 3] = "-"
              /\ IsDigit(name[h + 4]) /\ IsDigit(name[h + 5])
              /\ IsDigit(name[h + 6])
              /\ (h = 1 \/ ~IsWordChar(name[h - 1]))
              /\ (h + 6 = Len(name) \/ ~IsWordChar(name[h + 7]))}}

\* "Function names": func_rgx needs a line before the def.
NamePairs(text) ==
    UNION {{<<text[i].name, r>> : r \in NameReqs(text[i].name)} :
           i \in {h \in 2..Len(text) : text[h].k = "def"}}

\* "Docstrings right after def".
DocPairs(text) ==
    UNION {{<<text[i].name, r>> : r \in LineReqs(text[i + 1])} :
           i \in {h \in 1..(Len(text) - 1) :
                    text[h].k = "def" /\ text[h + 1].k = "doc"}}

\* The fallback loop over the lines of one file, from line i on, last_fn
\* being the most recent test definition seen.
RECURSIVE FallbackFold(_, _, _)
FallbackFold(text, i, last_fn) ==
    IF i > Len(text) THEN {}
    ELSE LET fn == IF text[i].k = "def" THEN text[i].name ELSE last_fn
         IN (IF fn # NoFn THEN {<<fn, r>> : r \in LineReqs(text[i])} ELSE {})
            \cup FallbackFold(text, i + 1, fn)

\* last_fn at the end of the fallback loop over one file started with
\* last_fn = fn0.
RECURSIVE LastFnAfter(_, _, _)
LastFnAfter(text, i, fn0) ==
    IF i > Len(text) THEN fn0
    ELSE LastFnAfter(text, i + 1,
                     IF text[i].k = "def" THEN text[i].name ELSE fn0)

\* A fallback that keeps last_fn from one file to the next.
RECURSIVE FallbackPairsCarry(_, _, _)
FallbackPairsCarry(files, n, fn0) ==
    IF n > Len(files) THEN {}
    ELSE FallbackFold(files[n], 1, fn0)
         \cup FallbackPairsCarry(files, n + 1, LastFnAfter(files[n], 1, fn0))

FallbackPairs_carry(files) == FallbackPairsCarry(files, 1, NoFn)

\* The fallback over every file: last_fn = None at the top of each file.
FallbackPairs(files) ==
    UNION {FallbackFold(files[n], 1, NoFn) : n \in 1..Len(files)}

\* What heuristics 1-3 append to the mapping, over every file.
HeuristicPairs(files) ==
    UNION {DecoPairs(files[n]) \cup NamePairs(files[n]) \cup DocPairs(files[n]) :
           n \in 1..Len(files)}

\* The mapping of a set of (name, requirement) pairs, de-duplicated.
MappingOf(pairs) ==
    [name \in {p[1] : p \in pairs} |-> {p[2] : p \in {q \in pairs : q[1] = name}}]

MapPyTestReqs(files) == MappingOf(HeuristicPairs(files) \cup FallbackPairs(files))

\* REQ_RE.findall(read_text(p)) of a Python source.
PyTextReqs(text) == UNION {LineReqs(text[i]) : i \in 1..Len(text)}

\* ------------------------------------------------------------------------
\* Source scanner: C# (map_cs_test_reqs)
\*
\* A C# source is a sequence of tokens:
\*   [k |-> "cat", req |-> n]     [Category("REQ-00n")]
\*   [k |-> "test"]               [Test]
\*   [k |-> "attr"]               another attribute, e.g. [TestFixture]
\*   [k |-> "class", name |-> s]  public class <s> {
\*   [k |-> "method", name |-> s] public void <s>() { }
\*   [k |-> "close"]              }
\* ------------------------------------------------------------------------

IsAttr(tok) == tok.k \in {"cat", "test", "attr"}

\* The token holds a "}".
HasCloseBrace(tok) == tok.k \in {"method", "close"}

\* First token of the attribute block right above token i, not below lo.
RECURSIVE AttrsStart(_, _, _)
AttrsStart(text, i, lo) ==
    IF i > lo /\ IsAttr(text[i - 1]) THEN AttrsStart(text, i - 1, lo) ELSE i

\* The tokens of the attribute block right above token i.
AttrsOf(text, i, lo) == {text[j] : j \in AttrsStart(text, i, lo)..(i - 1)}

\* cat_rgx.findall(attrs)
CatReqs(attrs) == {a.req : a \in {b \in attrs : b.k = "cat"}}

\* test_attr_hint.search(attrs)
HasTestAttr(attrs) == \E a \in attrs : a.k = "test"

ClassIdx(text) == {i \in 1..Len(text) : text[i].k = "class"}

\* The matches of class_rgx.finditer(text), as (class token, last body
\* token).  The body group is greedy: it runs to the last "}" of the text,
\* so the first class that has a "}" after it takes the rest of the file and
\* no later class is matched.
ClassMatches(text) ==
    LET cand == {c \in ClassIdx(text) :
                    \E j \in (c + 1)..Len(text) : HasCloseBrace(text[j])}
    IN IF cand = {} THEN {}
       ELSE LET c == MinOf(cand)
            IN {<<c, CHOOSE j \in (c + 1)..Len(text) :
                        /\ HasCloseBrace(text[j])
                        /\ \A h \in (j + 1)..Len(text) : ~HasCloseBrace(text[h])>>}

\* class_level of one file, as (method, requirement) pairs.
ClassLevelPairs(text) ==
    UNION {LET class_reqs == CatReqs(AttrsOf(text, m[1], 1))
           IN UNION {{<<text[i].name, r>> : r \in class_reqs} :
                     i \in {h \in (m[1] + 1)..m[2] :
                              /\ text[h].k = "method"
                              /\ HasTestAttr(AttrsOf(text, h, m[1] + 1))}} :
           m \in ClassMatches(text)}

\* Method-level categories of one file.
MethodLevelPairs(text) ==
    UNION {{<<text[i].name, r>> : r \in CatReqs(AttrsOf(text, i, 1))} :
           i \in {h \in 1..Len(text) :
                    /\ text[h].k = "method"
                    /\ HasTestAttr(AttrsOf(text, h, 1))}}

MapCsTestReqs(files) ==
    MappingOf(UNION {MethodLevelPairs(files[n]) \cup ClassLevelPairs(files[n]) :
                     n \in 1..Len(files)})

\* REQ_RE.findall(read_text(p)) of a C# source.
CsTextReqs(text) == CatReqs({text[i] : i \in 1..Len(text)})

\* ------------------------------------------------------------------------
\* main
\* ------------------------------------------------------------------------

\* REQ numbers in the text of generate_traceability.py itself, which
\* ROOT.rglob("*.*") finds under ROOT: "(e.g., REQ-001)".
ToolSourceReqs == {1}

\* all_req_ids of the salvage path of main.
SalvageReqs(pys, css, documents) ==
    documents.reqs \cup ToolSourceReqs
    \cup UNION {PyTextReqs(pys[n]) : n \in 1..Len(pys)}
    \cup UNION {CsTextReqs(css[n]) : n \in 1..Len(css)}

EmptyMap == [x \in {} |-> {}]

\* build_coverage()
BuildCoverage ==
    /\ pc = "start"
    /\ trx_rows' = LoadAllTrxRows(trxFiles)
    /\ junit_rows' = LoadAllJunitRows(junitFiles)
    /\ cs_map' = MapCsTestReqs(csFiles)
    /\ py_map' = MapPyTestReqs(pyFiles)
    /\ coverage' = BuildCoverageMap(cs_map', DictFromRows(trx_rows'),
                                    py_map', DictFromRows(junit_rows'))
    /\ overall' = BuildOverall(coverage', ReqsOf(cs_map') \cup ReqsOf(py_map'))
    /\ pc' = "built"
    /\ UNCHANGED <<trxFiles, junitFiles, csFiles, pyFiles, docs, matrix,
                   report, toolRun>>

\* A main that seeds the REQ numbers of the text files whether or not
\* build_coverage found requirements.
Salvage_seedAlways ==
    /\ pc = "built"
    /\ docs.readable
    /\ coverage' = [rid \in DOMAIN coverage \cup SalvageReqs(pyFiles, csFiles, docs)
                      |-> IF rid \in DOMAIN coverage THEN coverage[rid] ELSE {}]
    /\ overall' = [rid \in DOMAIN overall \cup SalvageReqs(pyFiles, csFiles, docs)
                     |-> IF rid \in DOMAIN overall THEN overall[rid]
                         ELSE "Unknown"]
    /\ pc' = "salvaged"
    /\ UNCHANGED <<trxFiles, junitFiles, csFiles, pyFiles, docs, trx_rows,
                   junit_rows, cs_map, py_map, matrix, report, toolRun>>

\* main, "if not overall": seed every REQ number found in the text files
\* with empty coverage and Unknown.
Salvage ==
    /\ pc = "built"
    /\ DOMAIN overall # {} \/ docs.readable
    /\ IF DOMAIN overall = {}
       THEN /\ coverage' = [rid \in SalvageReqs(pyFiles, csFiles, docs) |-> {}]
            /\ overall' = [rid \in SalvageReqs(pyFiles, csFiles, docs) |->
                            "Unknown"]
       ELSE UNCHANGED <<coverage, overall>>
    /\ pc' = "salvaged"
    /\ UNCHANGED <<trxFiles, junitFiles, csFiles, pyFiles, docs, trx_rows,
                   junit_rows, cs_map, py_map, matrix, report, toolRun>>

\* main, "if not overall": read_text(p) is not guarded, a file that cannot
\* be read ends the run with the exception.
SalvageRaises ==
    /\ pc = "built"
    /\ DOMAIN overall = {}
    /\ ~docs.readable
    /\ pc' = "aborted"
    /\ UNCHANGED <<trxFiles, junitFiles, csFiles, pyFiles, docs, trx_rows,
                   junit_rows, cs_map, py_map, coverage, overall, matrix,
                   report, toolRun>>

\* write_traceability_matrix(coverage)
WriteMatrix ==
    /\ pc = "salvaged"
    /\ matrix' = [written |-> TRUE, rows |-> MatrixRows(coverage)]
    /\ pc' = "matrix_written"
    /\ UNCHANGED <<trxFiles, junitFiles, csFiles, pyFiles, docs, trx_rows,
                   junit_rows, cs_map, py_map, coverage, overall, report,
                   toolRun>>

\* write_validation_report(coverage, overall)
WriteReport ==
    /\ pc = "matrix_written"
    /\ report' = [written |-> TRUE,
                  summary |-> ValidationReport(coverage, overall)]
    /\ pc' = "done"
    /\ UNCHANGED <<trxFiles, junitFiles, csFiles, pyFiles, docs, trx_rows,
                   junit_rows, cs_map, py_map, coverage, overall, matrix,
                   toolRun>>

\* ------------------------------------------------------------------------
\* Inputs
\* ------------------------------------------------------------------------

TestA == <<"t", "e", "s", "t", "_", "a">>
TestB == <<"t", "e", "s", "t", "_", "b">>
M1 == <<"M", "1">>
M2 == <<"M", "2">>
M3 == <<"M", "3">>
M4 == <<"M", "4">>

NoAttr == [x \in {} |-> ""]

Deco(R) == [k |-> "deco", reqs |-> R]
Def(name) == [k |-> "def", name |-> name]
Doc(R) == [k |-> "doc", reqs |-> R]
Text(R) == [k |-> "text", reqs |-> R]
CodeLine == [k |-> "code"]
PadLine == [k |-> "pad"]

Cat(n) == [k |-> "cat", req |-> n]
TestAttr == [k |-> "test"]
OtherAttr == [k |-> "attr"]
Class(name) == [k |-> "class", name |-> name]
Method(name) == [k |-> "method", name |-> name]
CloseBrace == [k |-> "close"]

TrxNode(attrib, errorInfo) == [attrib |-> attrib, errorInfo |-> errorInfo]

TrxFile(results) ==
    [wellFormed |-> TRUE, teamTestNs |-> TRUE, results |-> results]

\* A file ET.parse raises on.
CorruptFile == [wellFormed |-> FALSE]

JunitCase(attrib, skipped, failure, error) ==
    [attrib |-> attrib, skipped |-> skipped, failure |-> failure,
     error |-> error]

JunitFile(cases) == [wellFormed |-> TRUE, cases |-> cases]

NoRun == [parser |-> "none"]

\* The variables a specification does not draw.
Blank ==
    /\ trx_rows = <<>>
    /\ junit_rows = <<>>
    /\ cs_map = EmptyMap
    /\ py_map = EmptyMap
    /\ coverage = EmptyMap
    /\ overall = EmptyMap
    /\ matrix = NotWritten
    /\ report = NotWritten
    /\ toolRun = NoRun

NoDocs == [reqs |-> {}, readable |-> TRUE]

\* ------------------------------------------------------------------------
\* Spec: one run of main over a project
\* ------------------------------------------------------------------------

\* tests/python/test_functional.py: two tests, one marker above each.
PyFunctional ==
    <<CodeLine, Deco({5}), Def(TestA), CodeLine,
      Deco({6}), Def(TestB), CodeLine>>

\* Two tests with requirement comments in their bodies.
PyShared == <<Def(TestA), Text({1}), Def(TestB), Text({1}), Text({2})>>

\* A single test under its marker.
PyMarkerOnly == <<Deco({7}), Def(TestA), CodeLine>>

\* Two marked tests more than PrefixWindow characters apart.
PyPadded == <<Deco({8}), Def(TestA), PadLine, Deco({9}), Def(TestB)>>

PyProjects ==
    {<<>>, <<PyFunctional>>, <<PyShared>>, <<PyMarkerOnly>>, <<PyPadded>>}

\* A fixture annotated REQ-001 with a plain test and a test of REQ-003.
CsFixture ==
    <<OtherAttr, Cat(1), Class(<<"A">>), TestAttr, Method(M1),
      TestAttr, Cat(3), Method(M2), Method(M3), CloseBrace>>

CsProjects == {<<>>, <<CsFixture>>}

TrxProjects ==
    {<<>>,
     <<TrxFile(<<TrxNode("testName" :> M1 @@ "outcome" :> "Passed", FALSE)>>)>>,
     <<TrxFile(<<TrxNode("testName" :> (<<"N", ".">> \o M1)
                         @@ "outcome" :> "Failed", FALSE),
                 TrxNode("testName" :> M2 @@ "outcome" :> "Passed", FALSE)>>)>>,
     <<TrxFile(<<TrxNode("testName" :> M1 @@ "outcome" :> "NotExecuted",
                         FALSE)>>)>>,
     <<TrxFile(<<TrxNode("testName" :> (<<"N", ".">> \o M1)
                         @@ "outcome" :> "Failed", FALSE),
                 TrxNode("testName" :> (<<"X", ".">> \o M1)
                         @@ "outcome" :> "Skipped", FALSE)>>),
       TrxFile(<<TrxNode("testName" :> (<<"N", ".">> \o M1)
                         @@ "outcome" :> "Passed", FALSE)>>)>>,
     <<CorruptFile>>}

\* The testcase of a test, "-" for a test without testcase.
JunitCasesOf(name, o) ==
    IF o = "-" THEN <<>>
    ELSE <<JunitCase("name" :> name, o = "Skipped", o = "Failed", FALSE)>>

JunitProjects ==
    {<<>>, <<CorruptFile>>}
    \cup {<<JunitFile(JunitCasesOf(TestA, oa) \o JunitCasesOf(TestB, ob))>> :
            oa \in {"-", "Passed", "Failed", "Skipped"},
            ob \in {"-", "Passed", "Failed", "Skipped"}}
    \cup {<<CorruptFile,
            JunitFile(JunitCasesOf(TestA, "Passed")
                      \o JunitCasesOf(TestB, "Failed"))>>}
    \cup {<<JunitFile(JunitCasesOf(TestA \o <<"[", "a", "]">>, oa)
                      \o JunitCasesOf(TestA \o <<"[", "b", "]">>, ob))>> :
            oa \in {"Passed", "Failed"}, ob \in {"Passed", "Failed"}}
    \cup {<<JunitFile(JunitCasesOf(TestA, "Failed")),
            JunitFile(JunitCasesOf(TestA, "Passed"))>>}

DocChoices ==
    {[reqs |-> R, readable |-> b] : R \in {{}, {3}, {1, 9}}, b \in BOOLEAN}

Init ==
    /\ pc = "start"
    /\ trxFiles \in TrxProjects
    /\ junitFiles \in JunitProjects
    /\ csFiles \in CsProjects
    /\ pyFiles \in PyProjects
    /\ docs \in DocChoices
    /\ Blank

Next == BuildCoverage \/ Salvage \/ SalvageRaises \/ WriteMatrix \/ WriteReport

Spec == Init /\ [][Next]_vars

\* ------------------------------------------------------------------------
\* SpecParse: the result parsers on result files
\* ------------------------------------------------------------------------

TrxNameAttrs ==
    {"testName" :> M1, "testName" :> <<" ", "M", "1", " ">>,
     "executionId" :> <<"e", "1">>, NoAttr}

TrxOutcomeAttrs ==
    {"outcome" :> "Passed", "outcome" :> "Failed", "outcome" :> "NotExecuted",
     "outcome" :> "passed", "outcome" :> " Passed ", "result" :> "Failed",
     NoAttr}

TrxNodes ==
    {TrxNode(n @@ o, e) : n \in TrxNameAttrs, o \in TrxOutcomeAttrs,
                          e \in BOOLEAN}

TrxFiles ==
    {CorruptFile}
    \cup {[wellFormed |-> TRUE, teamTestNs |-> ns, results |-> r] :
            ns \in BOOLEAN, r \in SeqsUpTo(TrxNodes, MaxNodes)}

JunitNameAttrs ==
    {"name" :> TestA, "name" :> (TestA \o <<"[", "1", "]">>), NoAttr}

JunitCases ==
    {JunitCase(n, m[1], m[2], m[3]) :
        n \in JunitNameAttrs,
        m \in {<<FALSE, FALSE, FALSE>>, <<TRUE, FALSE, FALSE>>,
               <<FALSE, TRUE, FALSE>>, <<FALSE, FALSE, TRUE>>,
               <<TRUE, TRUE, FALSE>>}}

JunitFiles ==
    {CorruptFile} \cup {JunitFile(c) : c \in SeqsUpTo(JunitCases, MaxNodes)}

InitParse ==
    /\ pc = "parse"
    /\ \/ trxFiles \in SeqsUpTo(TrxFiles, MaxFiles) /\ junitFiles = <<>>
       \/ trxFiles = <<>> /\ junitFiles \in SeqsUpTo(JunitFiles, MaxFiles)
    /\ csFiles = <<>>
    /\ pyFiles = <<>>
    /\ docs = NoDocs
    /\ Blank

\* load_all_trx_rows()
LoadTrxRows ==
    /\ pc = "parse"
    /\ trxFiles # <<>>
    /\ trx_rows' = LoadAllTrxRows(trxFiles)
    /\ UNCHANGED <<pc, trxFiles, junitFiles, csFiles, pyFiles, docs,
                   junit_rows, cs_map, py_map, coverage, overall, matrix,
                   report, toolRun>>

\* load_all_junit_rows()
LoadJunitRows ==
    /\ pc = "parse"
    /\ junitFiles # <<>>
    /\ junit_rows' = LoadAllJunitRows(junitFiles)
    /\ UNCHANGED <<pc, trxFiles, junitFiles, csFiles, pyFiles, docs,
                   trx_rows, cs_map, py_map, coverage, overall, matrix,
                   report, toolRun>>

\* One call of a parser on one file: what it returns, or that it raised.
RunOf(parser, file) ==
    CASE parser = "parse_trx_file" ->
            [raised |-> FALSE, rows |-> ParseTrxFile(file)]
      [] parser = "parse_junit_file" ->
            [raised |-> FALSE, rows |-> ParseJunitFile(file)]
      [] parser = "parse_trx" -> ParseTrxTool(file)
      [] parser = "parse_junit" -> ParseJunitTool(file)

RunParser(parser, files) ==
    /\ pc = "parse"
    /\ \E i \in 1..Len(files) :
          toolRun' = [parser |-> parser, file |-> files[i],
                      result |-> RunOf(parser, files[i])]
    /\ UNCHANGED <<pc, trxFiles, junitFiles, csFiles, pyFiles, docs,
                   trx_rows, junit_rows, cs_map, py_map, coverage, overall,
                   matrix, report>>

CallParseTrxFile == RunParser("parse_trx_file", trxFiles)
CallParseJunitFile == RunParser("parse_junit_file", junitFiles)
CallParseTrxTool == RunParser("parse_trx", trxFiles)
CallParseJunitTool == RunParser("parse_junit", junitFiles)

NextParse ==
    \/ LoadTrxRows
    \/ LoadJunitRows
    \/ CallParseTrxFile
    \/ CallParseJunitFile
    \/ CallParseTrxTool
    \/ CallParseJunitTool

SpecParse == InitParse /\ [][NextParse]_vars

\* ------------------------------------------------------------------------
\* SpecJoin: the joiner on result rows and one mapped test per ecosystem
\* ------------------------------------------------------------------------

\* Result names around a test name: the name itself, qualified with "." and
\* "::", parameterised, and two names that only contain it.
NamesAround(name) ==
    {name,
     <<"N", ".">> \o name,
     <<"N", ":", ":">> \o name,
     <<"N", ".">> \o name \o <<"(", "1", ")">>,
     name \o <<" ", "(", "1", ")">>,
     <<"x">> \o name,
     <<"N", ".">> \o name \o <<"x">>}

JoinTrxRows ==
    {[name |-> n, outcome |-> o] :
        n \in NamesAround(M1), o \in {"Passed", "Failed"}}

\* parse_junit_file cuts a name at its first "[" or "(".
JoinJunitRows ==
    {[name |-> n, outcome |-> o] :
        n \in {TestA, <<"N", ".">> \o TestA, <<"N", ":", ":">> \o TestA},
        o \in {"Passed", "Failed"}}

InitJoin ==
    /\ pc = "join"
    /\ trx_rows \in SeqsUpTo(JoinTrxRows, MaxJoinRows)
    /\ junit_rows \in SeqsUpTo(JoinJunitRows, MaxJoinRows)
    /\ cs_map = (M1 :> {1})
    /\ py_map = (TestA :> {2})
    /\ trxFiles = <<>>
    /\ junitFiles = <<>>
    /\ csFiles = <<>>
    /\ pyFiles = <<>>
    /\ docs = NoDocs
    /\ coverage = EmptyMap
    /\ overall = EmptyMap
    /\ matrix = NotWritten
    /\ report = NotWritten
    /\ toolRun = NoRun

\* build_coverage from "Index outcomes by test name" on.
Join ==
    /\ pc = "join"
    /\ coverage' = BuildCoverageMap(cs_map, DictFromRows(trx_rows),
                                    py_map, DictFromRows(junit_rows))
    /\ overall' = BuildOverall(coverage', ReqsOf(cs_map) \cup ReqsOf(py_map))
    /\ pc' = "built"
    /\ UNCHANGED <<trxFiles, junitFiles, csFiles, pyFiles, docs, trx_rows,
                   junit_rows, cs_map, py_map, matrix, report, toolRun>>

SpecJoin == InitJoin /\ [][Join]_vars

\* ------------------------------------------------------------------------
\* SpecCs: map_cs_test_reqs on one C# source
\* ------------------------------------------------------------------------

\* The methods a class of the model may hold: a name, whether it carries
\* [Test], and its own categories.
MethodsOf(names) ==
    UNION {{[j \in 1..k |-> [name |-> names[j], test |-> m[j][1],
                             cats |-> m[j][2]]] :
                m \in [1..k -> BOOLEAN \X {{}, {3}}]} :
           k \in 0..Len(names)}

ClassesOf(clsName, cat, names) ==
    {[name |-> clsName, cats |-> c, methods |-> m] :
        c \in {{}, {cat}}, m \in MethodsOf(names)}

RECURSIVE CatTokens(_)
CatTokens(R) ==
    IF R = {} THEN <<>>
    ELSE LET n == MinOf(R) IN <<Cat(n)>> \o CatTokens(R \ {n})

RECURSIVE RenderMethods(_)
RenderMethods(ms) ==
    IF ms = <<>> THEN <<>>
    ELSE (IF Head(ms).test THEN <<TestAttr>> ELSE <<>>)
         \o CatTokens(Head(ms).cats) \o <<Method(Head(ms).name)>>
         \o RenderMethods(Tail(ms))

RenderClass(c) ==
    CatTokens(c.cats) \o <<Class(c.name)>> \o RenderMethods(c.methods)
    \o <<CloseBrace>>

MethodNames == <<M1, M2, M3, M4, <<"M", "5">>, <<"M", "6">>, <<"M", "7">>,
                 <<"M", "8">>, <<"M", "9">>>>

ClassNames == <<<<"A">>, <<"B">>, <<"C">>>>

\* The sources of n classes: class i is annotated REQ-00i or not, and holds
\* at most MaxMethods methods of its own names.
RECURSIVE CsSources(_)
CsSources(n) ==
    IF n = 0 THEN {<<>>}
    ELSE {s \o RenderClass(c) :
            s \in CsSources(n - 1),
            c \in ClassesOf(ClassNames[n], n,
                            SubSeq(MethodNames, (n - 1) * MaxMethods + 1,
                                   n * MaxMethods))}

InitCs ==
    /\ pc = "scan_cs"
    /\ \E n \in 1..MaxClasses : \E s \in CsSources(n) : csFiles = <<s>>
    /\ trxFiles = <<>>
    /\ junitFiles = <<>>
    /\ pyFiles = <<>>
    /\ docs = NoDocs
    /\ Blank

\* map_cs_test_reqs()
ScanCs ==
    /\ pc = "scan_cs"
    /\ cs_map' = MapCsTestReqs(csFiles)
    /\ pc' = "scanned_cs"
    /\ UNCHANGED <<trxFiles, junitFiles, csFiles, pyFiles, docs, trx_rows,
                   junit_rows, py_map, coverage, overall, matrix, report,
                   toolRun>>

SpecCs == InitCs /\ [][ScanCs]_vars

\* ------------------------------------------------------------------------
\* SpecPy: map_py_test_reqs on one or two Python sources
\* ------------------------------------------------------------------------

PyLines ==
    {Deco({1}), Deco({2}), Def(TestA), Def(TestB), Text({1}), Doc({2}),
     CodeLine}

PyTexts(n) == SeqsUpTo(PyLines, n) \ {<<>>}

InitPy ==
    /\ pc = "scan_py"
    /\ \E f \in PyTexts(MaxLines) :
          \/ pyFiles = <<f>>
          \/ \E g \in PyTexts(MaxLinesNext) : pyFiles = <<f, g>>
    /\ trxFiles = <<>>
    /\ junitFiles = <<>>
    /\ csFiles = <<>>
    /\ docs = NoDocs
    /\ Blank

\* map_py_test_reqs()
ScanPy ==
    /\ pc = "scan_py"
    /\ py_map' = MapPyTestReqs(pyFiles)
    /\ pc' = "scanned_py"
    /\ UNCHANGED <<trxFiles, junitFiles, csFiles, pyFiles, docs, trx_rows,
                   junit_rows, cs_map, coverage, overall, matrix, report,
                   toolRun>>

SpecPy == InitPy /\ [][ScanPy]_vars

\* ------------------------------------------------------------------------
\* Claims
\* ------------------------------------------------------------------------

\* The (name, requirement) pairs of a mapping.
PairsOf(map) == UNION {{<<t, r>> : r \in map[t]} : t \in DOMAIN map}

\* The most severe of a set of outcomes under Failed > Unknown > Skipped >
\* Passed.
WorstOutcome(os) ==
    IF "Failed" \in os THEN "Failed"
    ELSE IF "Unknown" \in os THEN "Unknown"
    ELSE IF "Skipped" \in os THEN "Skipped"
    ELSE "Passed"

\* C1: for every requirement with at least one coverage entry, the
\* OverallStatus computed by build_coverage is the most severe outcome among
\* its entries under Failed > Unknown > Skipped > Passed ({Passed, Failed}
\* gives Failed, {Passed, Skipped} gives Skipped, Passed only when all
\* entries are Passed).
C1_OverallIsWorstCase ==
    pc = "built" =>
        \A rid \in DOMAIN overall :
            LET os == {e[3] : e \in coverage[rid]}
            IN (os # {} /\ os \subseteq Outcomes)
                => overall[rid] = WorstOutcome(os)

\* C2: every requirement given in a pytest marker line immediately above a
\* test function's definition is associated with that function in the map
\* returned by map_py_test_reqs.
C2_MarkerAboveDefIsMapped ==
    pc = "scanned_py" =>
        \A n \in 1..Len(pyFiles) : \A i \in 1..Len(pyFiles[n]) :
            pyFiles[n][i].k = "def" =>
                \A j \in DecoBlockStart(pyFiles[n], i)..(i - 1) :
                    \A r \in pyFiles[n][j].reqs :
                        <<pyFiles[n][i].name, r>> \in PairsOf(py_map)

\* Rule (a), (b), (c) of the joiner for a result record named k.
RuleExact(name, k) == k = name
RuleSuffix(name, k) ==
    EndsWith(k, <<".">> \o name) \/ EndsWith(k, <<":", ":">> \o name)
RuleParen(name, k) == ParenSearch(name, k)

\* The outcomes the rules, tried strictly in order, allow for a test name:
\* those of the records matching the first rule that matches any record.
RuledOutcomes(name, rows) ==
    LET byA == {i \in 1..Len(rows) : RuleExact(name, rows[i].name)}
        byB == {i \in 1..Len(rows) : RuleSuffix(name, rows[i].name)}
        byC == {i \in 1..Len(rows) : RuleParen(name, rows[i].name)}
    IN IF byA # {} THEN {rows[i].outcome : i \in byA}
       ELSE IF byB # {} THEN {rows[i].outcome : i \in byB}
       ELSE IF byC # {} THEN {rows[i].outcome : i \in byC}
       ELSE {"Unknown"}

\* C3: for each mapped test name of either ecosystem the joiner resolves the
\* outcome by exact name, else by a ".name" or "::name" suffix, else by the
\* name followed by "("; an earlier rule always wins over a later one,
\* whatever the order of the result records, and no match gives Unknown.
C3_RulesTriedInOrder ==
    pc = "built" =>
        \A rid \in DOMAIN coverage : \A e \in coverage[rid] :
            e[3] \in RuledOutcomes(e[2], IF e[1] = "C#" THEN trx_rows
                                        ELSE junit_rows)

\* The class whose body holds token i: the last class token above i with no
\* closing brace of a class in between (0 when there is none).
EnclosingClass(text, i) ==
    LET cs == {c \in ClassIdx(text) :
                 c < i /\ \A h \in c..i : text[h].k # "close"}
    IN IF cs = {} THEN 0 ELSE CHOOSE c \in cs : \A d \in cs : d <= c

\* The test methods of a source: method tokens under a [Test] attribute.
TestMethodIdx(text) ==
    {i \in 1..Len(text) :
        text[i].k = "method" /\ HasTestAttr(AttrsOf(text, i, 1))}

\* The categories a test method has by the rule of the claim: its own and
\* those of the class that holds it.
ClaimedCats(text, i) ==
    CatReqs(AttrsOf(text, i, 1))
    \cup (IF EnclosingClass(text, i) = 0 THEN {}
          ELSE CatReqs(AttrsOf(text, EnclosingClass(text, i), 1)))

\* C4: every test method inside the body of a class annotated with category
\* X is mapped to X by map_cs_test_reqs, together with its own categories;
\* this holds for every annotated class of the file, and X is not attached
\* to the test methods of other classes.
C4_ClassCategoryPropagates ==
    pc = "scanned_cs" =>
        \A n \in 1..Len(csFiles) : \A i \in TestMethodIdx(csFiles[n]) :
            LET name == csFiles[n][i].name
                got == IF name \in DOMAIN cs_map THEN cs_map[name] ELSE {}
            IN got = ClaimedCats(csFiles[n], i)

\* C5: every requirement of the reporting universe (the requirements of the
\* two test-to-requirement maps and of the requirements catalog) is a key of
\* the final overall map; one without coverage entry has status Unknown and
\* is listed as uncovered.
C5_UniverseIsReported ==
    (pc = "done" /\ docs.readable) =>
        /\ ReqsOf(cs_map) \cup ReqsOf(py_map) \cup docs.reqs
              \subseteq DOMAIN overall
        /\ \A rid \in DOMAIN overall :
              ~IsCovered(coverage, rid) =>
                  /\ overall[rid] = "Unknown"
                  /\ rid \in report.summary.uncovered

\* The node carries no outcome string.
NoOutcomeString(res) ==
    Get(res.attrib, "outcome", "") = "" /\ Get(res.attrib, "result", "") = ""

\* C6: the outcome of every record a result parser produces is one of
\* Passed, Failed, Skipped, Unknown (an unrecognised outcome string becomes
\* Unknown), and a TRX result node without outcome string is Unknown unless
\* it holds an error message, in which case it is Failed.
C6_OutcomeIsNormalised ==
    /\ \A i \in 1..Len(trx_rows) : trx_rows[i].outcome \in Outcomes
    /\ \A i \in 1..Len(junit_rows) : junit_rows[i].outcome \in Outcomes
    /\ (toolRun.parser = "parse_trx_file" /\ toolRun.file.wellFormed) =>
          \A i \in 1..Len(toolRun.file.results) :
              NoOutcomeString(toolRun.file.results[i]) =>
                  toolRun.result.rows[i].outcome =
                      IF toolRun.file.results[i].errorInfo THEN "Failed"
                      ELSE "Unknown"

\* C7: when no result artifact of either format is found the run aborts
\* before writing anything, and every run ends with both artifacts written
\* or with neither.
C7_NoArtifactsNoReport ==
    /\ (trxFiles = <<>> /\ junitFiles = <<>>) =>
          ~matrix.written /\ ~report.written
    /\ pc \in {"done", "aborted"} => matrix.written = report.written

\* C8: every result parser, given a file that cannot be parsed, returns an
\* empty sequence of records and does not raise.
C8_ParsersNeverRaise ==
    (toolRun.parser # "none" /\ ~toolRun.file.wellFormed) =>
        ~toolRun.result.raised /\ toolRun.result.rows = <<>>

ProximityPairsOf(text) ==
    UNION {{<<text[p[1]].name, r>> : r \in LineReqs(text[p[2]])} :
           p \in {q \in (1..Len(text)) \X (1..Len(text)) :
                    /\ q[1] <= q[2]
                    /\ text[q[1]].k = "def"
                    /\ \A g \in (q[1] + 1)..q[2] : text[g].k # "def"}}

ProximityPairs(files) ==
    UNION {ProximityPairsOf(files[n]) : n \in 1..Len(files)}

\* C10: in the proximity fallback of map_py_test_reqs every requirement token
\* on a line at or after a test definition line and before the next one is
\* associated with that most recent test; tokens on lines before the first
\* test definition of a file are associated with no test (the most recent
\* test of the file scanned before does not carry over); the fallback only
\* adds to what the marker, name and docstring heuristics contributed.
C10_ProximityFallback ==
    pc = "scanned_py" =>
        PairsOf(py_map) = HeuristicPairs(pyFiles) \cup ProximityPairs(pyFiles)

\* Two sources are scanned: the first defines a test and has a requirement
\* token under it, the second starts with a token of a requirement that the
\* last test of the first source does not have.
C10_Witness ==
    /\ pc = "scanned_py"
    /\ Len(pyFiles) = 2
    /\ LastFnAfter(pyFiles[1], 1, NoFn) # NoFn
    /\ ProximityPairsOf(pyFiles[1]) # {}
    /\ pyFiles[2][1].k = "text"
    /\ \E r \in LineReqs(pyFiles[2][1]) :
          <<LastFnAfter(pyFiles[1], 1, NoFn), r>> \notin PairsOf(py_map)

\* The outcome of the last row in load order that has the name.
LastOutcome(rows, name) ==
    LET idx == {i \in 1..Len(rows) : rows[i].name = name}
    IN rows[CHOOSE i \in idx : \A j \in idx : j <= i].outcome

\* The name under which the joiner finds the records of a C# method: the
\* method's own name when a row has it, else the name of the first row in
\* load order that the suffix and parenthesis tests accept.
JoinedNames(method_name, rows) ==
    LET exact == {i \in 1..Len(rows) : rows[i].name = method_name}
        loose == {i \in 1..Len(rows) :
                    \/ SuffixTest(method_name, rows[i].name)
                    \/ ParenTest(method_name, rows[i].name)}
    IN IF exact # {} THEN {method_name}
       ELSE IF loose # {}
       THEN {rows[CHOOSE i \in loose : \A j \in loose : i <= j].name}
       ELSE {}

\* The coverage tuples of a requirement when every test is joined to the
\* last record of its name, "Unknown" for a test without record.
LastJoined(rid) ==
    {<<"C#", t, IF JoinedNames(t, trx_rows) = {} THEN "Unknown"
                ELSE LastOutcome(trx_rows,
                                 CHOOSE k \in JoinedNames(t, trx_rows) : TRUE)>> :
        t \in {u \in DOMAIN cs_map : rid \in cs_map[u]}}
    \cup
    {<<"Py", t, IF \E i \in 1..Len(junit_rows) : junit_rows[i].name = t
                THEN LastOutcome(junit_rows, t) ELSE "Unknown">> :
        t \in {u \in DOMAIN py_map : rid \in py_map[u]}}

\* C11: when several result records of one ecosystem share a name after
\* normalisation, the outcome joined to that test name is the outcome of
\* the last such record in load order; the earlier records, a Failed one
\* included, influence neither the coverage entries nor the OverallStatus
\* of the requirement.
C11_LastRecordWins ==
    pc # "start" =>
        \A rid \in ReqsOf(cs_map) \cup ReqsOf(py_map) :
            /\ coverage[rid] = LastJoined(rid)
            /\ overall[rid] = OverallOf(LastJoined(rid))

\* A finished run in which test_a[a] Failed and test_a[b] Passed are both
\* loaded as test_a, and a requirement whose only test is test_a is Passed.
C11_Witness ==
    /\ pc = "done"
    /\ \E i, j \in 1..Len(junit_rows) :
          /\ i < j
          /\ junit_rows[i] = [name |-> TestA, outcome |-> "Failed"]
          /\ junit_rows[j] = [name |-> TestA, outcome |-> "Passed"]
    /\ Len(junitFiles) = 1
    /\ \A c \in 1..Len(junitFiles[1].cases) :
          junitFiles[1].cases[c].attrib["name"] # TestA
    /\ \E rid \in DOMAIN overall :
          /\ coverage[rid] = {<<"Py", TestA, "Passed">>}
          /\ overall[rid] = "Passed"

\* C12: the requirements handed to the report emitters are either all
\* covered or all uncovered: every requirement of the overall map returned
\* by build_coverage has a coverage entry, the salvage path of main runs only
\* when that map is empty and seeds only requirements without entry, and the
\* Covered count of the summary is the requirement total or 0.
C12_AllOrNothingCoverage ==
    /\ pc = "built" =>
          \A rid \in DOMAIN overall : IsCovered(coverage, rid)
    /\ pc \in {"salvaged", "matrix_written", "done"} =>
          \/ /\ ReqsOf(cs_map) \cup ReqsOf(py_map) # {}
             /\ DOMAIN overall = ReqsOf(cs_map) \cup ReqsOf(py_map)
             /\ \A rid \in DOMAIN overall : IsCovered(coverage, rid)
          \/ /\ ReqsOf(cs_map) \cup ReqsOf(py_map) = {}
             /\ \A rid \in DOMAIN overall : ~IsCovered(coverage, rid)
    /\ report.written =>
          report.summary.covered \in {0, report.summary.total}

\* A finished run over sources that map two or more requirements, with a
\* catalog that names a requirement no test maps to: the summary counts
\* every requirement as covered.
C12_Witness ==
    /\ pc = "done"
    /\ report.written
    /\ docs.readable
    /\ docs.reqs \ (ReqsOf(cs_map) \cup ReqsOf(py_map)) # {}
    /\ report.summary.total >= 2
    /\ report.summary.covered = report.summary.total

=============================================================================
